---- MODULE Spec2Model ----
(***************************************************************************)
(* Model of vigil's multi-stream presentation: four PixelView widgets,     *)
(* each owning a cv.VideoCapture and a QTimer, and MainWindow.focus_stream *)
(* which hides/shows them.  Everything runs on the single Qt event thread, *)
(* so every slot (a timer timeout, a button click) is one atomic action.   *)
(***************************************************************************)
EXTENDS Integers, Sequences, FiniteSets, TLC

(* ---------------------------------------------------------------- bounds *)

\* Frames each video file holds before read() reports the end of the stream.
MaxFrames == 2

\* Milliseconds of wall-clock time one AdvanceTime step lets pass.
TimeStep == 33

\* Video files that can be opened, in the statement-by-statement
\* specification.
MaxAvailable == 1

\* Detections the HOG detector returns for one frame, at most.
MaxDetections == 3

\* Detection weights range over MinConfidence -/+ WeightSpread (hundredths).
WeightSpread == 1

\* Largest configured frame rate.
MaxFps == 1001
\* A time step finer than the 33 ms period, for the timing of repeated
\* focus_stream calls.
FineStep == 11

(* ----------------------------------------------------- program constants *)

\* VigilStreamFocus (IntEnum)
STREAM_0 == 0
STREAM_1 == 1
STREAM_2 == 2
STREAM_3 == 3
CONCURRENT == 4

\* PixelView.__init__(..., fps=30)
DefaultFps == 30

\* detect_and_bound_people(frame, min_confidence=0.75), in hundredths
MinConfidence == 75

\* range(1, 5): the indices of the four pixel widgets
Streams == {STREAM_0, STREAM_1, STREAM_2, STREAM_3}

\* the arguments the five push buttons pass to focus_stream
Targets == Streams \cup {CONCURRENT}

\* the frame of a failed read: cv.VideoCapture.read() returns (False, None)
None == -1

\* "no focus_stream call yet" (history only)
NoCall == CONCURRENT + 1

VARIABLES
    pixel_widgets,  \* MainWindow.pixel_widgets: stream -> PixelView state
    app,            \* the QApplication: "running" | "aborted" | "closed"
                    \* (event loop left, interpreter shutting down) | "exited"
    lastTarget,     \* history: argument of the last focus_stream call
    lastOp,         \* history: the last slot that ran, "init" | "focus" |
                    \* "tick" | "tick_raised"
    call,           \* the focus_stream call in progress: its argument and
                    \* the number of its statements already executed
    target_fps,     \* the fps argument the PixelViews were constructed with
    detection       \* the last detect_and_bound_people call on its own: its
                    \* arguments, the detector's output and what was drawn

vars == <<pixel_widgets, app, lastTarget, lastOp, call, target_fps, detection>>

\* what the event-loop actions leave alone
harness == <<target_fps, detection>>

\* no detect_and_bound_people call made yet
NoDetection == [frame |-> 0, found |-> <<>>, raised |-> FALSE, drawn |-> {}]

\* no focus_stream call in progress: the event loop is dispatching
Idle == [stream |-> NoCall, pc |-> 0]

(* ------------------------------------------------------------- PixelView *)

Max(a, b) == IF a >= b THEN a ELSE b

\* cv.VideoCapture(path): opened iff the file could be opened; pos counts the
\* frames consumed so far, released the release() calls made on it.
VideoCapture(isOpened) == [opened |-> isOpened, pos |-> 0, released |-> 0]

\* a read that grabs twice and so drops a frame
read_DropsFrame(cap, grabFails) ==
    IF ~cap.opened \/ cap.pos >= MaxFrames \/ grabFails
    THEN [ret |-> FALSE, frame |-> None, cap |-> cap]
    ELSE [ret |-> TRUE, frame |-> cap.pos + 2,
          cap |-> [cap EXCEPT !.pos = cap.pos + 2]]

\* video_capture.read(): (ret, frame) and the capture afterwards.  A capture
\* that is not opened, one at the end of its file, and a failing grab all
\* return (False, None); a good read returns the next frame and advances.
read(cap, grabFails) ==
    IF ~cap.opened \/ cap.pos >= MaxFrames \/ grabFails
    THEN [ret |-> FALSE, frame |-> None, cap |-> cap]
    ELSE [ret |-> TRUE, frame |-> cap.pos + 1,
          cap |-> [cap EXCEPT !.pos = cap.pos + 1]]

\* PeopleDetector.detect_and_bound_people(frame): cv.cvtColor(None, ...)
\* raises cv2.error; nothing in the method catches it.
detect_and_bound_people(frame) ==
    [raised |-> frame = None, frame |-> frame]

\* The overlay pass with the detector's output: hog.detectMultiScale found
\* one box per entry of `found` (its weight, in hundredths); the boxes drawn
\* on the frame are those the loop's test `weight > min_confidence` lets pass.
\* A frame of None raises in cv.cvtColor before anything is detected or drawn.
bound_people(frame, found, min_confidence) ==
    LET gray == detect_and_bound_people(frame)
    IN  [raised |-> gray.raised,
         drawn  |-> IF gray.raised THEN {}
                    ELSE {k \in DOMAIN found : found[k] > min_confidence}]

\* setup_continuos_streaming without timer.start()
setup_continuos_streaming_NotStarted(fps) ==
    [active |-> FALSE, interval |-> 1000 \div fps, remaining |-> 0 - 1]

\* setup_continuos_streaming with the period rounded up instead of truncated
setup_continuos_streaming_RoundedUp(fps) ==
    LET period_ms == (1000 + fps - 1) \div fps
    IN  [active |-> TRUE, interval |-> period_ms, remaining |-> period_ms]

\* setup_continuos_streaming(fps): the QTimer, interval int(1000 / fps) ms,
\* started.
setup_continuos_streaming(fps) ==
    LET period_ms == 1000 \div fps
    IN  [active |-> TRUE, interval |-> period_ms, remaining |-> period_ms]

\* QTimer.start(): (re)starts the timer; a running timer is stopped and
\* started again, so its phase is reset.
timer_start(timer) ==
    [timer EXCEPT !.active = TRUE, !.remaining = timer.interval]

\* QTimer.stop(): the timer is no longer active; a timeout that was due and
\* has not been delivered is dropped with it (Tick needs an active timer), and
\* an inactive timer has no remaining time (QTimer.remainingTime() is -1).
timer_stop(timer) == [timer EXCEPT !.active = FALSE, !.remaining = 0 - 1]

\* PixelView.__init__ followed by MainWindow.show(): upscale False, the
\* blank QPixmap(*dimensions) of setup_gui, the timer started.
PixelView(video_capture, fps) ==
    [video_capture |-> video_capture,
     upscale       |-> FALSE,
     visible       |-> TRUE,
     pixmap_item   |-> [frame |-> 0, scaled |-> FALSE],
     timer         |-> setup_continuos_streaming(fps),
     finalized     |-> FALSE]

\* PixelView.__del__(): self.video_capture.release().  Python runs the
\* finalizer of an object at most once.
PixelView_del(w) ==
    [w EXCEPT !.video_capture.released = w.video_capture.released + 1,
              !.finalized = TRUE]

\* hide that forgets self.timer.stop()
hide_NoTimerStop(w) == [w EXCEPT !.visible = FALSE]

\* PixelView.hide(): super().hide(); self.timer.stop()
hide(w) == [w EXCEPT !.visible = FALSE, !.timer = timer_stop(w.timer)]

\* show that forgets self.timer.start()
show_NoTimerStart(w) == [w EXCEPT !.visible = TRUE]

\* PixelView.show(): super().show(); self.timer.start()
show(w) == [w EXCEPT !.visible = TRUE, !.timer = timer_start(w.timer)]

\* upscale_stream that ignores its argument: self.upscale = True
upscale_stream_AlwaysTrue(w, is_upscaled) == [w EXCEPT !.upscale = TRUE]

\* PixelView.upscale_stream(is_upscaled)
upscale_stream(w, is_upscaled) == [w EXCEPT !.upscale = is_upscaled]

\* the slot with the test of self.upscale left out: the pixmap is never scaled
extract_cv2_frame_to_pixmap_NeverScaled(w, grabFails) ==
    LET r   == read(w.video_capture, grabFails)
        d   == detect_and_bound_people(r.frame)
        w1  == [w EXCEPT !.video_capture = r.cap]
    IN  IF d.raised
        THEN [raised |-> TRUE, widget |-> w1]
        ELSE [raised |-> FALSE,
              widget |-> [w1 EXCEPT !.pixmap_item =
                              [frame |-> d.frame, scaled |-> FALSE]]]

\* PixelView.continuously_refresh(fps): starts the timer if fps > 0, stops it
\* otherwise.  The interval set at construction is not changed.
continuously_refresh(w, fps) ==
    IF fps > 0 THEN [w EXCEPT !.timer = timer_start(w.timer)]
               ELSE [w EXCEPT !.timer = timer_stop(w.timer)]

\* PixelView.extract_cv2_frame_to_pixmap(): the timeout slot.  Returns the
\* widget afterwards and whether an exception escaped the slot.
extract_cv2_frame_to_pixmap(w, grabFails) ==
    LET r   == read(w.video_capture, grabFails)
        d   == detect_and_bound_people(r.frame)
        w1  == [w EXCEPT !.video_capture = r.cap]
    IN  IF d.raised
        THEN [raised |-> TRUE, widget |-> w1]
        ELSE [raised |-> FALSE,
              widget |-> [w1 EXCEPT !.pixmap_item =
                              [frame |-> d.frame, scaled |-> w.upscale]]]

(* ------------------------------------------------------------ MainWindow *)

\* MainWindow.build_videocapture_layout(): one PixelView per capture.
build_videocapture_layout(isOpened) ==
    [i \in Streams |-> PixelView(VideoCapture(isOpened[i]), DefaultFps)]

\* focus_stream with the hide loop of the single-stream branch left out
focus_stream_NoHide(widgets, stream) ==
    IF stream = CONCURRENT
    THEN [i \in Streams |-> show(upscale_stream(widgets[i], FALSE))]
    ELSE [widgets EXCEPT ![stream] = show(upscale_stream(widgets[stream], TRUE))]

\* MainWindow.focus_stream(stream)
focus_stream(widgets, stream) ==
    IF stream = CONCURRENT
    THEN [i \in Streams |-> show(upscale_stream(widgets[i], FALSE))]
    ELSE LET hidden == [i \in Streams |-> hide(widgets[i])]
         IN  [hidden EXCEPT ![stream] = show(upscale_stream(hidden[stream], TRUE))]

(* --------------------------------------------------------------- actions *)

Init ==
    /\ \E isOpened \in [Streams -> BOOLEAN] :
           pixel_widgets = build_videocapture_layout(isOpened)
    /\ app = "running"
    /\ lastTarget = NoCall
    /\ lastOp = "init"
    /\ call = Idle
    /\ target_fps = DefaultFps
    /\ detection = NoDetection

\* A push button of the controller window is clicked.
FocusStream(stream) ==
    /\ app = "running"
    /\ call = Idle
    /\ pixel_widgets' = focus_stream(pixel_widgets, stream)
    /\ lastTarget' = stream
    /\ lastOp' = "focus"
    /\ UNCHANGED <<app, call, harness>>

\* Time passes: every running timer gets closer to its timeout.
AdvanceTime ==
    /\ app = "running"
    /\ \E i \in Streams :
           pixel_widgets[i].timer.active /\ pixel_widgets[i].timer.remaining > 0
    /\ pixel_widgets' =
           [i \in Streams |->
               IF pixel_widgets[i].timer.active
               THEN [pixel_widgets[i] EXCEPT !.timer.remaining =
                         Max(0, pixel_widgets[i].timer.remaining - TimeStep)]
               ELSE pixel_widgets[i]]
    /\ UNCHANGED <<app, lastTarget, lastOp, call, harness>>

\* What PyQt5 does with an exception that escapes a slot: since PyQt 5.5 it
\* calls qFatal(), which aborts the process; before, it printed the traceback
\* and the event loop went on.  main() installs no sys.excepthook.
SlotExceptionOutcomes == {"aborted", "running"}

\* The timer of stream i times out and the event loop runs its slot (the
\* event loop dispatches only when no other slot is running).  The timer is
\* periodic: it is re-armed for the next period.
Tick(i) ==
    /\ app = "running"
    /\ call = Idle
    /\ pixel_widgets[i].timer.active
    /\ pixel_widgets[i].timer.remaining = 0
    /\ \E grabFails \in BOOLEAN :
           LET r == extract_cv2_frame_to_pixmap(pixel_widgets[i], grabFails)
           IN  /\ pixel_widgets' =
                      [pixel_widgets EXCEPT
                          ![i] = [r.widget EXCEPT !.timer.remaining =
                                      r.widget.timer.interval]]
               /\ IF r.raised
                  THEN /\ app' \in SlotExceptionOutcomes
                       /\ lastOp' = "tick_raised"
                  ELSE /\ app' = "running"
                       /\ lastOp' = "tick"
    /\ UNCHANGED <<lastTarget, call, harness>>

Next ==
    \/ \E stream \in Targets : FocusStream(stream)
    \/ AdvanceTime
    \/ \E i \in Streams : Tick(i)

Spec == Init /\ [][Next]_vars

(* ------------------------------------- focus_stream, statement by statement *)

\* the number of statements focus_stream(stream) executes: upscale_stream and
\* show for each widget, or a hide for each widget, then upscale_stream and
\* show for the target
focus_stream_length(stream) ==
    IF stream = CONCURRENT THEN 2 * Cardinality(Streams)
                           ELSE Cardinality(Streams) + 2

\* focus_stream with the target upscaled and shown before the others are hidden
focus_stream_statement_ShowFirst(widgets, stream, pc) ==
    IF stream = CONCURRENT
    THEN LET k == pc \div 2
         IN  IF pc % 2 = 0
             THEN [widgets EXCEPT ![k] = upscale_stream(widgets[k], FALSE)]
             ELSE [widgets EXCEPT ![k] = show(widgets[k])]
    ELSE IF pc = 0
         THEN [widgets EXCEPT ![stream] = upscale_stream(widgets[stream], TRUE)]
         ELSE IF pc = 1
              THEN [widgets EXCEPT ![stream] = show(widgets[stream])]
              ELSE IF pc - 2 = stream
                   THEN widgets
                   ELSE [widgets EXCEPT ![pc - 2] = hide(widgets[pc - 2])]

\* the widgets after statement number pc of focus_stream(stream), in the
\* order the method executes them (pixel_widgets is iterated in index order)
focus_stream_statement(widgets, stream, pc) ==
    IF stream = CONCURRENT
    THEN LET k == pc \div 2
         IN  IF pc % 2 = 0
             THEN [widgets EXCEPT ![k] = upscale_stream(widgets[k], FALSE)]
             ELSE [widgets EXCEPT ![k] = show(widgets[k])]
    ELSE IF pc < Cardinality(Streams)
         THEN [widgets EXCEPT ![pc] = hide(widgets[pc])]
         ELSE IF pc = Cardinality(Streams)
              THEN [widgets EXCEPT ![stream] = upscale_stream(widgets[stream], TRUE)]
              ELSE [widgets EXCEPT ![stream] = show(widgets[stream])]

\* A push button is clicked: the event loop enters focus_stream(stream).
FocusBegin(stream) ==
    /\ app = "running"
    /\ call = Idle
    /\ call' = [stream |-> stream, pc |-> 0]
    /\ UNCHANGED <<pixel_widgets, app, lastTarget, lastOp, harness>>

\* The call in progress executes its next statement; after the last one it
\* returns to the event loop.
FocusStep ==
    /\ app = "running"
    /\ call # Idle
    /\ pixel_widgets' = focus_stream_statement(pixel_widgets, call.stream, call.pc)
    /\ IF call.pc + 1 = focus_stream_length(call.stream)
       THEN /\ call' = Idle
            /\ lastTarget' = call.stream
            /\ lastOp' = "focus"
       ELSE /\ call' = [call EXCEPT !.pc = call.pc + 1]
            /\ UNCHANGED <<lastTarget, lastOp>>
    /\ UNCHANGED <<app, harness>>

NextSteps ==
    \/ \E stream \in Targets : FocusBegin(stream)
    \/ FocusStep
    \/ AdvanceTime
    \/ \E i \in Streams : Tick(i)

\* startups in which at most MaxAvailable of the video files can be opened
InitSteps ==
    /\ Init
    /\ Cardinality({i \in Streams : pixel_widgets[i].video_capture.opened})
           <= MaxAvailable

\* the program with focus_stream executed one statement at a time, time
\* passing (and timers becoming due) while it runs
SpecSteps == InitSteps /\ [][NextSteps]_vars

(* ---------------------------------------------------------------- teardown *)

\* MainWindow.closeEvent(): every top-level widget is closed; with the last
\* window closed app.exec() returns and sys.exit() starts the interpreter's
\* shutdown.  No timeout is delivered any more.
closeEvent ==
    /\ app = "running"
    /\ call = Idle
    /\ app' = "closed"
    /\ UNCHANGED <<pixel_widgets, lastTarget, lastOp, call, harness>>

\* The interpreter finalizes the PixelView of stream i: __del__ runs.  The
\* widgets are referenced from MainWindow.pixel_widgets while the
\* application runs, so this happens during shutdown only.
Finalize(i) ==
    /\ app = "closed"
    /\ ~pixel_widgets[i].finalized
    /\ pixel_widgets' = [pixel_widgets EXCEPT ![i] = PixelView_del(pixel_widgets[i])]
    /\ UNCHANGED <<app, lastTarget, lastOp, call, harness>>

\* The process ends.  Python does not guarantee that __del__ has run for
\* the objects that still exist when the interpreter exits.
Exit ==
    /\ app = "closed"
    /\ app' = "exited"
    /\ UNCHANGED <<pixel_widgets, lastTarget, lastOp, call, harness>>

NextTeardown ==
    \/ Next
    \/ closeEvent
    \/ \E i \in Streams : Finalize(i)
    \/ Exit

\* the program from startup to the end of the process
SpecTeardown == InitSteps /\ [][NextTeardown]_vars

(* ------------------------------------------------- the configured refresh *)

\* the frame rates a PixelView is constructed with
FpsValues == 1..MaxFps

\* the arguments continuously_refresh is called with
RefreshArgs == {0 - 1, 0, 1, DefaultFps, 2 * DefaultFps, MaxFps}

\* startup with PixelView(cap, name, fps) for a configured fps
InitRefresh ==
    /\ target_fps \in FpsValues
    /\ pixel_widgets =
           [i \in Streams |-> PixelView(VideoCapture(TRUE), target_fps)]
    /\ app = "running"
    /\ lastTarget = NoCall
    /\ lastOp = "init"
    /\ call = Idle
    /\ detection = NoDetection

\* pixel_widgets[i].continuously_refresh(f)
ContinuouslyRefresh(i, f) ==
    /\ app = "running"
    /\ call = Idle
    /\ pixel_widgets' =
           [pixel_widgets EXCEPT ![i] = continuously_refresh(pixel_widgets[i], f)]
    /\ UNCHANGED <<app, lastTarget, lastOp, call, harness>>

NextRefresh == \E i \in Streams, f \in RefreshArgs : ContinuouslyRefresh(i, f)

SpecRefresh == InitRefresh /\ [][NextRefresh]_vars

(* ------------------------------------------- the overlay pass on its own *)

\* the weights the detector can report
Weights == (MinConfidence - WeightSpread) .. (MinConfidence + WeightSpread)

\* the outputs of hog.detectMultiScale: up to MaxDetections weighted boxes
Found == UNION {[1..n -> Weights] : n \in 0..MaxDetections}

\* the frames a tick can hand to the overlay pass: a frame of the file, or
\* the None of a failed read
Frames == (1..MaxFrames) \cup {None}

\* people_detector.detect_and_bound_people(frame) with the default threshold
Detect(frame, found) ==
    /\ LET r == bound_people(frame, found, MinConfidence)
       IN  detection' = [frame |-> frame, found |-> found,
                         raised |-> r.raised, drawn |-> r.drawn]
    /\ UNCHANGED <<pixel_widgets, app, lastTarget, lastOp, call, target_fps>>

NextDetect == \E frame \in Frames, found \in Found : Detect(frame, found)

SpecDetect == Init /\ [][NextDetect]_vars

(* ------------------------------------------------------------ vocabulary *)

\* the streams whose QTimer is active
TimersRunning == {i \in Streams : pixel_widgets[i].timer.active}

\* the streams whose upscale flag is True
Upscaled == {i \in Streams : pixel_widgets[i].upscale}

\* the focus the window shows: the last focus_stream argument, and the grid
\* (CONCURRENT) before the first call
CurrentFocus == IF lastTarget = NoCall THEN CONCURRENT ELSE lastTarget

(* ---------------------------------------------------------------- claims *)

\* C1: after focus_stream(target) returns, the streams whose timer is running
\* are all streams if target is CONCURRENT and exactly {target} otherwise;
\* and from every state of the running application every target can be
\* requested in one call.
C1_ActiveSetAfterFocus ==
    /\ lastOp = "focus" =>
           TimersRunning = IF lastTarget = CONCURRENT THEN Streams
                                                      ELSE {lastTarget}
    /\ app = "running" => \A t \in Targets : ENABLED FocusStream(t)

\* C1 witness: a single-stream focus on stream 2 made after an earlier
\* single-stream focus on stream 0 (whose upscale flag is still set).
C1_Witness ==
    /\ lastOp = "focus"
    /\ lastTarget = STREAM_2
    /\ pixel_widgets[STREAM_0].upscale
    /\ TimersRunning = {STREAM_2}

\* C2: after any completed focus_stream(target) the streams with upscale =
\* True are exactly {target} for a single-stream target and none for
\* CONCURRENT (so at most one stream is upscaled).
C2_SingleUpscaleAfterFocus ==
    lastOp = "focus" =>
        Upscaled = IF lastTarget = CONCURRENT THEN {} ELSE {lastTarget}

\* C3: focus_stream(x) while the focus is already x is a no-op: no timer is
\* stopped, started or restarted (its phase kept), no widget hidden or shown,
\* no flag changed.
C3_RefocusIsNoOp ==
    [][\A t \in Targets :
          (CurrentFocus = t /\ FocusStream(t)) => UNCHANGED pixel_widgets]_vars

\* C4: a tick whose read fails changes neither whether the stream's timer is
\* running nor its upscale flag, and leaves its rendered pixmap in place.
C4_FailedReadKeepsState ==
    [][\A i \in Streams :
          (Tick(i) /\ lastOp' = "tick_raised") =>
              /\ app' = "running"
              /\ pixel_widgets'[i].timer.active = pixel_widgets[i].timer.active
              /\ pixel_widgets'[i].upscale = pixel_widgets[i].upscale
              /\ pixel_widgets'[i].pixmap_item = pixel_widgets[i].pixmap_item]_vars

\* C5: a failure inside one stream's tick is absorbed locally: the process
\* keeps running and every timer that was running is still running.
C5_TickFailureAbsorbed ==
    lastOp = "tick_raised" => app = "running"

\* C6: a tick that finds its source at the end of the stream stops that
\* stream's timer and leaves the last rendered frame on its surface.
C6_EndOfStreamStopsTimer ==
    [][\A i \in Streams :
          (/\ Tick(i)
           /\ pixel_widgets[i].video_capture.opened
           /\ pixel_widgets[i].video_capture.pos = MaxFrames) =>
              /\ app' = "running"
              /\ ~pixel_widgets'[i].timer.active
              /\ pixel_widgets'[i].pixmap_item = pixel_widgets[i].pixmap_item]_vars

\* C7: a stream whose source could not be opened is disabled: its timer never
\* runs (not at startup, not after focus_stream(CONCURRENT), not after a
\* focus on it) and it is never upscaled.
C7_UnavailableSourceDisabled ==
    \A i \in Streams :
        ~pixel_widgets[i].video_capture.opened =>
            ~pixel_widgets[i].timer.active /\ ~pixel_widgets[i].upscale

\* the timer, visibility and scaling a widget has at startup
StartupState(w) ==
    /\ w.timer = setup_continuos_streaming(DefaultFps)
    /\ w.visible
    /\ ~w.upscale

\* C8: focus_stream(CONCURRENT) called while a single stream is focused
\* returns every stream to the startup state: timer running (freshly
\* started), widget visible, not upscaled.
C8_RoundTripToStartup ==
    [][(lastTarget \in Streams /\ FocusStream(CONCURRENT)) =>
           \A i \in Streams : StartupState(pixel_widgets'[i])]_vars

\* C8 witness: the grid was requested after a single-stream focus during
\* which the focused stream rendered an upscaled frame; all streams are back
\* in the startup state.
C8_Witness ==
    /\ lastOp = "focus"
    /\ lastTarget = CONCURRENT
    /\ \E i \in Streams : pixel_widgets[i].pixmap_item.scaled
    /\ \A i \in Streams : StartupState(pixel_widgets[i])

\* C9: with all four sources available, until the first focus request the
\* running application shows the grid: all four timers running, all widgets
\* visible, no stream upscaled.
C9_StartupIsConcurrent ==
    (/\ lastTarget = NoCall
     /\ app = "running"
     /\ \A i \in Streams : pixel_widgets[i].video_capture.opened) =>
        /\ TimersRunning = Streams
        /\ Upscaled = {}
        /\ \A i \in Streams : pixel_widgets[i].visible

\* C9 witness: no focus request yet, all sources available, and a stream
\* has already ticked and rendered its first frame.
C9_Witness ==
    /\ lastTarget = NoCall
    /\ lastOp = "tick"
    /\ \A i \in Streams : pixel_widgets[i].video_capture.opened
    /\ \E i \in Streams : pixel_widgets[i].pixmap_item.frame = 1
    /\ TimersRunning = Streams

\* C10: between PixelView.hide and the next PixelView.show of a stream (the
\* widget is not visible) no tick of that stream fires, whatever the
\* interleaving of focus requests and timer expiries.
C10_NoTickWhileHidden ==
    [][\A i \in Streams : ~pixel_widgets[i].visible => ~Tick(i)]_vars

\* C10 witness: a stream is hidden and the focused stream has ticked since:
\* a whole period has passed since the hide (the focus request restarted the
\* focused stream's timer), so the hidden stream's timeout would have been due.
C10_Witness ==
    /\ lastOp = "tick"
    /\ lastTarget \in Streams
    /\ \E i \in Streams : ~pixel_widgets[i].visible
    /\ pixel_widgets[lastTarget].pixmap_item.scaled

\* the streams whose widget is visible
Visible == {i \in Streams : pixel_widgets[i].visible}

\* the streams a completed focus_stream(target) leaves active and visible
FocusSet(target) == IF target = CONCURRENT THEN Streams ELSE {target}

\* C11: a focus change is ordered and atomic with respect to ticks.  Inside
\* focus_stream(STREAM_i) a statement that shows a widget, starts a timer or
\* sets an upscale flag runs only when every widget is hidden and every timer
\* stopped (all deactivations are complete); and a tick runs only when no
\* focus_stream call is in progress, so it sees the timers and widgets of a
\* completed focus, never a partly applied one.
C11_FocusChangeAtomic ==
    [][/\ (FocusStep /\ call.stream \in Streams /\
             \E j \in Streams :
                \/ pixel_widgets'[j].visible /\ ~pixel_widgets[j].visible
                \/ pixel_widgets'[j].timer.active /\ ~pixel_widgets[j].timer.active
                \/ pixel_widgets'[j].upscale /\ ~pixel_widgets[j].upscale)
          => (Visible = {} /\ TimersRunning = {})
       /\ \A i \in Streams :
             Tick(i) => /\ call = Idle
                        /\ TimersRunning = FocusSet(CurrentFocus)
                        /\ Visible = FocusSet(CurrentFocus)]_vars

\* C11 witness: a single-stream focus_stream call is part-way through its
\* hide loop while the timeout of a stream it has not hidden yet is due.
C11_Witness ==
    /\ call.stream \in Streams
    /\ call.pc > 0
    /\ call.pc < Cardinality(Streams)
    /\ \E j \in Streams :
           pixel_widgets[j].timer.active /\ pixel_widgets[j].timer.remaining = 0

\* C12: for every frame and every detection the detector returns, the box is
\* drawn iff its weight is >= the threshold; a weight equal to the threshold
\* is drawn.
C12_DrawnIffAtLeastThreshold ==
    (detection # NoDetection /\ ~detection.raised) =>
        detection.drawn =
            {k \in DOMAIN detection.found : detection.found[k] >= MinConfidence}

\* C13: the overlay pass never raises for an empty frame (the None of a
\* failed read): it returns normally with no box drawn.
C13_NoRaiseOnEmptyFrame ==
    detection.frame = None => (~detection.raised /\ detection.drawn = {})

\* C14 (as claimed): whenever a stream is visible its pixmap is at the
\* stream's current target size, upscaled iff upscale is True, as soon as
\* focus_stream returns and without waiting for a tick.
C14_SurfaceAlwaysAtTargetSize ==
    \A i \in Streams :
        pixel_widgets[i].visible =>
            pixel_widgets[i].pixmap_item.scaled = pixel_widgets[i].upscale

\* C14 (amended): a stream's pixmap changes only in a successful tick of
\* that stream, which leaves it at the stream's current target size (upscaled
\* iff upscale is True); focus_stream itself never touches a pixmap, so the
\* surface reaches a new target size at the stream's next successful tick.
C14_SurfaceAtTargetSizeAfterTick ==
    [][\A i \in Streams :
          pixel_widgets'[i].pixmap_item # pixel_widgets[i].pixmap_item =>
              /\ lastOp' = "tick"
              /\ pixel_widgets[i].timer.active
              /\ pixel_widgets'[i].pixmap_item.scaled = pixel_widgets'[i].upscale]_vars

\* C14 witness: the focused stream has ticked and shows an upscaled frame,
\* while a hidden stream still holds the native-size frame it rendered in
\* the grid.
C14_Witness ==
    /\ lastOp = "tick"
    /\ lastTarget \in Streams
    /\ pixel_widgets[lastTarget].upscale
    /\ pixel_widgets[lastTarget].pixmap_item.scaled
    /\ \E j \in Streams :
           /\ ~pixel_widgets[j].visible
           /\ pixel_widgets[j].pixmap_item.frame > 0
           /\ ~pixel_widgets[j].pixmap_item.scaled

\* C15: each stream's video_capture is released exactly once, on teardown:
\* never twice, never while the application is running and its timer can
\* still tick and read from it, and released by the time the process has
\* exited after the main window was closed.
C15_ReleasedExactlyOnce ==
    \A i \in Streams :
        /\ pixel_widgets[i].video_capture.released <= 1
        /\ pixel_widgets[i].video_capture.released > 0 => app # "running"
        /\ app = "exited" => pixel_widgets[i].video_capture.released = 1

\* C16 (as claimed): for every configured positive integer fps the period
\* set at stream creation is 1000/fps ms, truncated, and is positive.
C16_PeriodPositive ==
    \A i \in Streams :
        /\ pixel_widgets[i].timer.interval = 1000 \div target_fps
        /\ pixel_widgets[i].timer.interval > 0

\* C16 (amended): the period set at stream creation is 1000/fps ms,
\* truncated; it is at least 1 ms for every fps up to 1000 and 0 ms for a
\* larger fps.
C16_PeriodTruncated ==
    \A i \in Streams :
        /\ pixel_widgets[i].timer.interval = 1000 \div target_fps
        /\ pixel_widgets[i].timer.interval * target_fps <= 1000
        /\ 1000 < (pixel_widgets[i].timer.interval + 1) * target_fps
        /\ (target_fps <= 1000) <=> (pixel_widgets[i].timer.interval >= 1)

\* C16 witness: a stream created with fps = 1000 runs with a period of 1 ms.
C16_Witness ==
    /\ target_fps = 1000
    /\ \A i \in Streams :
           pixel_widgets[i].timer.active /\ pixel_widgets[i].timer.interval = 1

\* C20: continuously_refresh(fps) makes the stream refresh at the requested
\* rate: after a call with fps > 0 the timer runs with period 1000/fps ms,
\* after a call with fps <= 0 it is stopped, and the upscale flag and the
\* pixmap are unchanged.
C20_RefreshAtRequestedRate ==
    [][\A i \in Streams, f \in RefreshArgs :
          ContinuouslyRefresh(i, f) =>
              /\ f > 0 => /\ pixel_widgets'[i].timer.active
                          /\ pixel_widgets'[i].timer.interval = 1000 \div f
              /\ f <= 0 => ~pixel_widgets'[i].timer.active
              /\ pixel_widgets'[i].upscale = pixel_widgets[i].upscale
              /\ pixel_widgets'[i].pixmap_item = pixel_widgets[i].pixmap_item]_vars

\* C17: after any sequence of focus_stream calls (and ticks), a stream's
\* timer is running iff its widget is visible.
C17_ActiveIffVisible ==
    \A i \in Streams : pixel_widgets[i].timer.active <=> pixel_widgets[i].visible

\* C17 witness: stream 1 is focused after an earlier focus on stream 3; it
\* alone is visible and it alone has a running timer.
C17_Witness ==
    /\ lastOp = "focus"
    /\ lastTarget = STREAM_1
    /\ pixel_widgets[STREAM_3].upscale
    /\ Visible = {STREAM_1}
    /\ TimersRunning = {STREAM_1}

\* C18: a hidden stream consumes no frame and keeps its pixmap; a stream's
\* source position moves only in a successful tick of that stream, by
\* exactly one frame, and the frame rendered is the one following the last
\* frame read, also across a deactivation.
C18_PositionAdvancesByOwnTicks ==
    [][\A i \in Streams :
          /\ ~pixel_widgets[i].visible =>
                 /\ pixel_widgets'[i].video_capture = pixel_widgets[i].video_capture
                 /\ pixel_widgets'[i].pixmap_item = pixel_widgets[i].pixmap_item
          /\ pixel_widgets'[i].video_capture # pixel_widgets[i].video_capture =>
                 /\ lastOp' = "tick"
                 /\ pixel_widgets[i].timer.active
                 /\ pixel_widgets'[i].video_capture.pos =
                        pixel_widgets[i].video_capture.pos + 1
                 /\ pixel_widgets'[i].pixmap_item.frame =
                        pixel_widgets[i].video_capture.pos + 1]_vars

\* C18 witness: back in the grid after a single-stream focus on stream j
\* (which rendered its first frame upscaled), stream i, hidden during that
\* focus, has just rendered frame 2 at native size; no other stream has
\* read anything.
C18_Witness ==
    /\ lastOp = "tick"
    /\ lastTarget = CONCURRENT
    /\ \E i, j \in Streams :
           /\ i # j
           /\ pixel_widgets[i].video_capture.pos = 2
           /\ pixel_widgets[i].pixmap_item = [frame |-> 2, scaled |-> FALSE]
           /\ pixel_widgets[j].video_capture.pos = 1
           /\ pixel_widgets[j].pixmap_item = [frame |-> 1, scaled |-> TRUE]
           /\ \A k \in Streams \ {i, j} : pixel_widgets[k].video_capture.pos = 0

\* ---------------------------------------------------------------------------
\* Scheduling: focus_stream calls arriving more often than the timer period.

\* Time passes in steps shorter than a timer period.
AdvanceFine ==
    /\ app = "running"
    /\ \E i \in Streams :
           pixel_widgets[i].timer.active /\ pixel_widgets[i].timer.remaining > 0
    /\ pixel_widgets' =
           [i \in Streams |->
               IF pixel_widgets[i].timer.active
               THEN [pixel_widgets[i] EXCEPT !.timer.remaining =
                         Max(0, pixel_widgets[i].timer.remaining - FineStep)]
               ELSE pixel_widgets[i]]
    /\ UNCHANGED <<app, lastTarget, lastOp, call, harness>>

NextLive ==
    \/ \E stream \in Targets : FocusStream(stream)
    \/ AdvanceFine
    \/ \E i \in Streams : Tick(i)

\* The event loop: time does not stop, and a timer that is due again and
\* again is eventually served.
Fairness ==
    /\ WF_vars(AdvanceFine)
    /\ \A i \in Streams : SF_vars(Tick(i))

SpecLive == InitSteps /\ [][NextLive]_vars /\ Fairness

\* C19: under timer fairness, a stream with an opened source that stays
\* active in a running application ticks again and again, however often
\* focus_stream is invoked.
C19_ActiveStreamKeepsTicking ==
    \A i \in Streams :
        <>[](/\ app = "running"
             /\ pixel_widgets[i].video_capture.opened
             /\ pixel_widgets[i].timer.active)
            => []<><<Tick(i)>>_vars

====
